---- MODULE Spec2Model ----
(***************************************************************************)
(* A model of libp2p-swarm/src/transport.rs: the Transport and             *)
(* ConnectionUpgrade contracts, the OrTransport and OrUpgrade combinators, *)
(* the Either adapters and the UpgradedNode negotiation driver.            *)
(*                                                                         *)
(* Every value is a record with a field k naming its Rust type.  Leaf      *)
(* transports, leaf upgrades and the negotiation exchange are external to  *)
(* the file: their answers are inputs, drawn by the actions.               *)
(***************************************************************************)
EXTENDS Integers, Sequences, FiniteSets, TLC

VARIABLES
    cur,        \* the transport value the caller holds
    nleaf,      \* number of leaf transports created so far
    answered,   \* the answers the leaf transports gave of late: [op, id, addr, ok]
    ops,        \* the last two dial / listen_on calls, with their results
    fut,        \* the live future or listener returned by the last call
    polled,     \* the outcome of the last poll of fut
    items,      \* what the polls of a listener have returned, in order
    ev,         \* the calls the polls of fut have made, in order
    nupg,       \* number of concrete upgrades created so far
    iter,       \* the iterator the last protocol_names call returned
    yielded     \* what the next() calls on iter have returned, in order

vars == <<cur, nleaf, answered, ops, fut, polled, items, ev, nupg, iter, yielded>>

(***************************** bounds **************************************)
MaxLeaves == 3      \* leaf transports in one chain
NumAddrs == 2       \* distinct addresses
MaxItems == 2       \* items and errors one listener hands out
MaxUpgrades == 2    \* concrete upgrades in one upgrade-set
MaxNames == 2       \* names one concrete upgrade advertises
MaxResolve == 1     \* external outcomes that arrive before one poll call
MaxAssocNames == 1  \* names of one upgrade composed with two others

Addrs == 1..NumAddrs
LeafIds == 1..MaxLeaves

(***************************** values **************************************)
Nil == [k |-> "nil"]

\* A concrete transport behind the Transport trait.
Leaf(i) == [k |-> "Leaf", id |-> i]

DeniedTransport == [k |-> "DeniedTransport"]

OrTransport(a, b) == [k |-> "OrTransport", a |-> a, b |-> b]

EitherStream(tag, s) == [k |-> "EitherStream", tag |-> tag, v |-> s]

EitherTransportFuture(tag, f) == [k |-> "EitherTransportFuture", tag |-> tag, v |-> f]

EitherSocket(tag, c) == [k |-> "EitherSocket", tag |-> tag, v |-> c]

\* The connection a leaf transport produces: the n-th one on address addr.
RawConn(i, addr, n) == [k |-> "RawConn", id |-> i, addr |-> addr, n |-> n]

\* A leaf transport's Dial future and Listener.
LeafDial(i, addr) == [k |-> "LeafDial", id |-> i, addr |-> addr]

LeafListener(i, addr, n) == [k |-> "LeafListener", id |-> i, addr |-> addr, n |-> n]

IoError(what, i) == [k |-> "IoError", what |-> what, id |-> i]

\* Result<_, (Self, Multiaddr)> of listen_on and dial, with the calls made.
Ok(v, calls) == [ok |-> TRUE, v |-> v, calls |-> calls]

Err(trans, addr, calls) == [ok |-> FALSE, trans |-> trans, addr |-> addr, calls |-> calls]

Call(op, i, addr) == [op |-> op, id |-> i, addr |-> addr]

(************************ Transport: listen_on, dial ***********************)
\* A leaf gives the address back, and itself, when it does not support it.
\* acc holds the leaf transports that accept the call made to them.
Leaf_call(op, self, addr, acc) ==
    IF self.id \in acc
    THEN Ok(IF op = "dial" THEN LeafDial(self.id, addr) ELSE LeafListener(self.id, addr, 0),
            <<Call(op, self.id, addr)>>)
    ELSE Err(self, addr, <<Call(op, self.id, addr)>>)

\* A faulty variant of DeniedTransport that hands back another address.
DeniedTransport_call_other(op, self, addr) ==
    Err(DeniedTransport, (addr % NumAddrs) + 1, <<Call(op, 0, addr)>>)

DeniedTransport_call(op, self, addr) ==
    Err(DeniedTransport, addr, <<Call(op, 0, addr)>>)

RECURSIVE Transport_call(_, _, _, _)

\* Faulty variants of OrTransport::dial and OrTransport::listen_on.
\* dial that asks the second transport even when the first has accepted.
OrTransport_dial_eager(self, addr, acc) ==
    LET r1 == Transport_call("dial", self.a, addr, acc)
        r2 == Transport_call("dial", self.b, addr, acc)
    IN IF r1.ok THEN Ok(EitherTransportFuture("First", r1.v), r1.calls \o r2.calls)
       ELSE IF r2.ok THEN Ok(EitherTransportFuture("Second", r2.v), r1.calls \o r2.calls)
       ELSE Err(OrTransport(r1.trans, r2.trans), r2.addr, r1.calls \o r2.calls)

\* dial that wraps every future as First.
OrTransport_dial_untagged(self, addr, acc) ==
    LET r1 == Transport_call("dial", self.a, addr, acc) IN
    IF r1.ok THEN Ok(EitherTransportFuture("First", r1.v), r1.calls)
    ELSE LET r2 == Transport_call("dial", self.b, r1.addr, acc) IN
         IF r2.ok THEN Ok(EitherTransportFuture("First", r2.v), r1.calls \o r2.calls)
         ELSE Err(OrTransport(r1.trans, r2.trans), r2.addr, r1.calls \o r2.calls)

\* dial that rebuilds the combinator with its two sides exchanged.
OrTransport_dial_swapped(self, addr, acc) ==
    LET r1 == Transport_call("dial", self.a, addr, acc) IN
    IF r1.ok THEN Ok(EitherTransportFuture("First", r1.v), r1.calls)
    ELSE LET r2 == Transport_call("dial", self.b, r1.addr, acc) IN
         IF r2.ok THEN Ok(EitherTransportFuture("Second", r2.v), r1.calls \o r2.calls)
         ELSE Err(OrTransport(r2.trans, r1.trans), r2.addr, r1.calls \o r2.calls)

\* dial that tries the first transport again after the second has refused.
OrTransport_dial_retry(self, addr, acc) ==
    LET r1 == Transport_call("dial", self.a, addr, acc) IN
    IF r1.ok THEN Ok(EitherTransportFuture("First", r1.v), r1.calls)
    ELSE LET r2 == Transport_call("dial", self.b, r1.addr, acc) IN
         IF r2.ok THEN Ok(EitherTransportFuture("Second", r2.v), r1.calls \o r2.calls)
         ELSE LET r3 == Transport_call("dial", r1.trans, r2.addr, acc) IN
              Err(OrTransport(r3.trans, r2.trans), r3.addr, r1.calls \o r2.calls \o r3.calls)

\* listen_on that prefers the second transport.
OrTransport_listen_on_second(self, addr, acc) ==
    LET r2 == Transport_call("listen_on", self.b, addr, acc) IN
    IF r2.ok THEN Ok(EitherStream("Second", r2.v), r2.calls)
    ELSE LET r1 == Transport_call("listen_on", self.a, r2.addr, acc) IN
         IF r1.ok THEN Ok(EitherStream("First", r1.v), r2.calls \o r1.calls)
         ELSE Err(OrTransport(r1.trans, r2.trans), r1.addr, r2.calls \o r1.calls)

OrTransport_listen_on(self, addr, acc) ==
    LET r1 == Transport_call("listen_on", self.a, addr, acc) IN
    IF r1.ok THEN Ok(EitherStream("First", r1.v), r1.calls)
    ELSE LET r2 == Transport_call("listen_on", self.b, r1.addr, acc) IN
         IF r2.ok THEN Ok(EitherStream("Second", r2.v), r1.calls \o r2.calls)
         ELSE Err(OrTransport(r1.trans, r2.trans), r2.addr, r1.calls \o r2.calls)

OrTransport_dial(self, addr, acc) ==
    LET r1 == Transport_call("dial", self.a, addr, acc) IN
    IF r1.ok THEN Ok(EitherTransportFuture("First", r1.v), r1.calls)
    ELSE LET r2 == Transport_call("dial", self.b, r1.addr, acc) IN
         IF r2.ok THEN Ok(EitherTransportFuture("Second", r2.v), r1.calls \o r2.calls)
         ELSE Err(OrTransport(r1.trans, r2.trans), r2.addr, r1.calls \o r2.calls)

(********************* ConnectionUpgrade: values ***************************)
PlainTextName == "/plaintext/1.0.0"

Unit == [k |-> "Unit"]

PlainText == [k |-> "PlainText"]

\* A concrete upgrade behind the ConnectionUpgrade trait: it advertises names.
Upgrade(u, names) == [k |-> "Upgrade", id |-> u, names |-> names]

OrUpgrade(a, b) == [k |-> "OrUpgrade", a |-> a, b |-> b]

EitherUpgradeIdentifier(tag, id) == [k |-> "EitherUpgradeIdentifier", tag |-> tag, v |-> id]

EitherConnUpgrFuture(tag, f) == [k |-> "EitherConnUpgrFuture", tag |-> tag, v |-> f]

UpgradedNode(t, u) == [k |-> "UpgradedNode", transports |-> t, upgrade |-> u]

\* The i-th identifier of the concrete upgrade u.
UpgradeId(u, i) == [k |-> "UpgradeId", u |-> u, i |-> i]

NameId(name, id) == [name |-> name, id |-> id]

\* An iterator over a sequence of (name, id) pairs: iter::Once, or a concrete upgrade's.
SeqIter(s) == [k |-> "SeqIter", rest |-> s]

NamesIterChain(first, second) == [k |-> "NamesIterChain", first |-> first, second |-> second]

\* Option<Item> of Iterator::next, with the iterator as it is left.
Some(item, it) == [some |-> TRUE, item |-> item, it |-> it]

None(it) == [some |-> FALSE, it |-> it]

(********************* ConnectionUpgrade: protocol_names *******************)
PlainText_protocol_names(self) == SeqIter(<<NameId(PlainTextName, Unit)>>)

Upgrade_protocol_names(self) ==
    SeqIter([i \in 1..Len(self.names) |-> NameId(self.names[i], UpgradeId(self.id, i))])

RECURSIVE protocol_names(_)

\* A faulty variant of OrUpgrade::protocol_names that reads the second
\* upgrade's names first.
OrUpgrade_protocol_names_flipped(self) ==
    NamesIterChain(protocol_names(self.b), protocol_names(self.a))

OrUpgrade_protocol_names(self) ==
    NamesIterChain(protocol_names(self.a), protocol_names(self.b))

protocol_names(self) ==
    CASE self.k = "PlainText" -> PlainText_protocol_names(self)
      [] self.k = "Upgrade" -> Upgrade_protocol_names(self)
      [] self.k = "OrUpgrade" -> OrUpgrade_protocol_names(self)

SeqIter_next(self) ==
    IF self.rest = <<>> THEN None(self)
    ELSE Some(Head(self.rest), SeqIter(Tail(self.rest)))

RECURSIVE Iterator_next(_)

\* A faulty variant of NamesIterChain::next that asks the second iterator first.
NamesIterChain_next_second(self) ==
    LET n2 == Iterator_next(self.second) IN
    IF n2.some
    THEN Some(NameId(n2.item.name, EitherUpgradeIdentifier("Second", n2.item.id)),
              NamesIterChain(self.first, n2.it))
    ELSE LET n1 == Iterator_next(self.first) IN
         IF n1.some
         THEN Some(NameId(n1.item.name, EitherUpgradeIdentifier("First", n1.item.id)),
                   NamesIterChain(n1.it, n2.it))
         ELSE None(NamesIterChain(n1.it, n2.it))

\* A faulty variant of NamesIterChain::next that forgets the rest of the first
\* iterator once it has returned one of its items.
NamesIterChain_next_once(self) ==
    LET n1 == Iterator_next(self.first) IN
    IF n1.some
    THEN Some(NameId(n1.item.name, EitherUpgradeIdentifier("First", n1.item.id)),
              NamesIterChain(SeqIter(<<>>), self.second))
    ELSE LET n2 == Iterator_next(self.second) IN
         IF n2.some
         THEN Some(NameId(n2.item.name, EitherUpgradeIdentifier("Second", n2.item.id)),
                   NamesIterChain(n1.it, n2.it))
         ELSE None(NamesIterChain(n1.it, n2.it))

NamesIterChain_next(self) ==
    LET n1 == Iterator_next(self.first) IN
    IF n1.some
    THEN Some(NameId(n1.item.name, EitherUpgradeIdentifier("First", n1.item.id)),
              NamesIterChain(n1.it, self.second))
    ELSE LET n2 == Iterator_next(self.second) IN
         IF n2.some
         THEN Some(NameId(n2.item.name, EitherUpgradeIdentifier("Second", n2.item.id)),
                   NamesIterChain(n1.it, n2.it))
         ELSE None(NamesIterChain(n1.it, n2.it))

Iterator_next(self) ==
    CASE self.k = "SeqIter" -> SeqIter_next(self)
      [] self.k = "NamesIterChain" -> NamesIterChain_next(self)

\* What a consumer draining the iterator sees: next() until it returns None.
RECURSIVE Collect(_)
Collect(it) ==
    LET n == Iterator_next(it) IN
    IF n.some THEN <<n.item>> \o Collect(n.it) ELSE <<>>

(********************* ConnectionUpgrade: upgrade **************************)
UpgradeFuture(u, socket, id) == [k |-> "UpgradeFuture", u |-> u, socket |-> socket, id |-> id]

FutureResult(v) == [k |-> "FutureResult", v |-> v]

UpgradeCall(u, socket, id) == [op |-> "leaf_upgrade", u |-> u, socket |-> socket, id |-> id]

\* A future, with the calls into concrete upgrades that building it made.
Built(f, calls) == [fut |-> f, calls |-> calls]

\* A faulty variant of PlainText::upgrade whose future is pending at first and
\* resolves to a wrapper of the connection.
PlainText_upgrade_lazy(self, i, id) == Built(UpgradeFuture(0, i, id), <<>>)

PlainText_upgrade(self, i, id) == Built(FutureResult(i), <<>>)

Upgrade_upgrade(self, socket, id) ==
    Built(UpgradeFuture(self.id, socket, id), <<UpgradeCall(self.id, socket, id)>>)

RECURSIVE upgrade(_, _, _)

\* A faulty variant of OrUpgrade::upgrade that wraps every future as First.
OrUpgrade_upgrade_untagged(self, socket, id) ==
    IF id.tag = "First"
    THEN LET b == upgrade(self.a, socket, id.v) IN
         Built(EitherConnUpgrFuture("First", b.fut), b.calls)
    ELSE LET b == upgrade(self.b, socket, id.v) IN
         Built(EitherConnUpgrFuture("First", b.fut), b.calls)

OrUpgrade_upgrade(self, socket, id) ==
    IF id.tag = "First"
    THEN LET b == upgrade(self.a, socket, id.v) IN
         Built(EitherConnUpgrFuture("First", b.fut), b.calls)
    ELSE LET b == upgrade(self.b, socket, id.v) IN
         Built(EitherConnUpgrFuture("Second", b.fut), b.calls)

upgrade(self, socket, id) ==
    CASE self.k = "PlainText" -> PlainText_upgrade(self, socket, id)
      [] self.k = "Upgrade" -> Upgrade_upgrade(self, socket, id)
      [] self.k = "OrUpgrade" -> OrUpgrade_upgrade(self, socket, id)

(********************* UpgradedNode: dial, listen_on ***********************)
\* The boxed future of UpgradedNode::dial: dialed_fut.and_then(..).and_then(..).
\* stage says which future of the chain is being driven, f is that future.
DialFuture(stage, f, upg) == [k |-> "DialFuture", stage |-> stage, f |-> f, upgrade |-> upg]

\* The boxed stream of UpgradedNode::listen_on:
\* listening_stream.and_then(..).map_err(..).and_then(..).  f1 is the future of
\* the first and_then (Nil when it holds none), f2 that of the second.
ListenerStream(inner, upg, f1, f2) ==
    [k |-> "ListenerStream", inner |-> inner, upgrade |-> upg, f1 |-> f1, f2 |-> f2]

\* A faulty variant of UpgradedNode::dial that hands back a node without
\* the upgrade-set it was given.
UpgradedNode_dial_plain(self, addr, acc) ==
    LET upg == self.upgrade
        r == Transport_call("dial", self.transports, addr, acc)
    IN IF r.ok THEN Ok(DialFuture("dial", r.v, upg), r.calls)
       ELSE Err(UpgradedNode(r.trans, PlainText), r.addr, r.calls)

UpgradedNode_dial(self, addr, acc) ==
    LET upg == self.upgrade
        r == Transport_call("dial", self.transports, addr, acc)
    IN IF r.ok THEN Ok(DialFuture("dial", r.v, upg), r.calls)
       ELSE Err(UpgradedNode(r.trans, upg), r.addr, r.calls)

UpgradedNode_listen_on(self, addr, acc) ==
    LET upg == self.upgrade
        r == Transport_call("listen_on", self.transports, addr, acc)
    IN IF r.ok THEN Ok(ListenerStream(r.v, upg, Nil, Nil), r.calls)
       ELSE Err(UpgradedNode(r.trans, upg), r.addr, r.calls)

\* Static dispatch of Transport::listen_on / Transport::dial on the type of self.
Transport_call(op, self, addr, acc) ==
    CASE self.k = "Leaf" -> Leaf_call(op, self, addr, acc)
      [] self.k = "DeniedTransport" -> DeniedTransport_call(op, self, addr)
      [] self.k = "OrTransport" ->
            IF op = "dial" THEN OrTransport_dial(self, addr, acc)
            ELSE OrTransport_listen_on(self, addr, acc)
      [] self.k = "UpgradedNode" ->
            IF op = "dial" THEN UpgradedNode_dial(self, addr, acc)
            ELSE UpgradedNode_listen_on(self, addr, acc)

(********************* multistream_select **********************************)
NegotiationError == [k |-> "NegotiationError"]

\* The connection as negotiation hands it back: the handshake has been read.
Negotiated(conn, name) == [k |-> "Negotiated", conn |-> conn, name |-> name]

Negotiation(role, conn, names) ==
    [k |-> "Negotiation", role |-> role, conn |-> conn, names |-> names]

Range(s) == {s[i] : i \in 1..Len(s)}

Matching(names, name) == {i \in 1..Len(names) : names[i].name = name}

Min(S) == CHOOSE m \in S : \A n \in S : m <= n

\* The dialer proposes its names in order; the peer takes the first it knows.
dialer_select_proto(names, peer) ==
    LET hits == {i \in 1..Len(names) : names[i].name \in Range(peer)} IN
    IF hits = {} THEN Nil ELSE names[Min(hits)]

\* The peer proposes its names in order; the listener takes the first it knows.
listener_select_proto(names, peer) ==
    LET hits == {j \in 1..Len(peer) : Matching(names, peer[j]) # {}} IN
    IF hits = {} THEN Nil ELSE names[Min(Matching(names, peer[Min(hits)]))]

(***************************** polling *************************************)
\* Poll<Item, Error> of one poll call: st is NotReady, Ready, Err, End (a
\* stream's Ready(None)) or Panic; fut is the polled value as the call leaves
\* it, orc what is left of the external outcomes, ev the calls it made.
Polled(st, val, f, orc, calls) ==
    [st |-> st, val |-> val, fut |-> f, orc |-> orc, ev |-> calls]

\* What is left of the outcomes once a future has answered "not ready" to the
\* first of them.
Rest(orc) == IF orc = <<>> THEN <<>> ELSE Tail(orc)

\* A leaf transport's Dial future: the next outcome decides it.
LeafDial_poll(self, orc) ==
    IF orc # <<>> /\ Head(orc) = "ok"
    THEN Polled("Ready", RawConn(self.id, self.addr, 0), Nil, Tail(orc), <<>>)
    ELSE IF orc # <<>> /\ Head(orc) = "err"
    THEN Polled("Err", IoError("connect", self.id), Nil, Tail(orc), <<>>)
    ELSE Polled("NotReady", Nil, self, Rest(orc), <<>>)

\* A leaf transport's Listener: it accepts, fails one accept, or ends.
LeafListener_poll(self, orc) ==
    IF orc # <<>> /\ Head(orc) = "ok"
    THEN Polled("Ready", RawConn(self.id, self.addr, self.n + 1),
                LeafListener(self.id, self.addr, self.n + 1), Tail(orc), <<>>)
    ELSE IF orc # <<>> /\ Head(orc) = "err"
    THEN Polled("Err", IoError("accept", self.id), self, Tail(orc), <<>>)
    ELSE IF orc # <<>> /\ Head(orc) = "end"
    THEN Polled("End", Nil, Nil, Tail(orc), <<>>)
    ELSE Polled("NotReady", Nil, self, Rest(orc), <<>>)

\* The negotiation exchange: an I/O failure, or the outcome the peer's names decide.
Negotiation_poll(self, orc, peer) ==
    IF orc # <<>> /\ Head(orc) = "ok"
    THEN LET sel == IF self.role = "dialer" THEN dialer_select_proto(self.names, peer)
                    ELSE listener_select_proto(self.names, peer)
         IN IF sel = Nil THEN Polled("Err", NegotiationError, Nil, Tail(orc), <<>>)
            ELSE Polled("Ready", [id |-> sel.id, conn |-> Negotiated(self.conn, sel.name)],
                        Nil, Tail(orc),
                        <<[op |-> "negotiated", id |-> sel.id,
                           conn |-> Negotiated(self.conn, sel.name)]>>)
    ELSE IF orc # <<>> /\ Head(orc) = "err"
    THEN Polled("Err", IoError("negotiate", 0), Nil, Tail(orc), <<>>)
    ELSE Polled("NotReady", Nil, self, Rest(orc), <<>>)

\* A concrete upgrade's future.
UpgradeFuture_poll(self, orc) ==
    IF orc # <<>> /\ Head(orc) = "ok"
    THEN Polled("Ready", [k |-> "Upgraded", u |-> self.u, socket |-> self.socket, id |-> self.id],
                Nil, Tail(orc), <<>>)
    ELSE IF orc # <<>> /\ Head(orc) = "err"
    THEN Polled("Err", IoError("upgrade", self.u), Nil, Tail(orc), <<>>)
    ELSE Polled("NotReady", Nil, self, Rest(orc), <<>>)

\* future_ok(i): ready at once.
FutureResult_poll(self, orc) == Polled("Ready", self.v, Nil, orc, <<>>)

RECURSIVE Poll(_, _, _)

EitherTransportFuture_poll(self, orc, peer) ==
    LET p == Poll(self.v, orc, peer) IN
    CASE p.st = "Ready" -> Polled("Ready", EitherSocket(self.tag, p.val), Nil, p.orc, p.ev)
      [] p.st = "NotReady" ->
            Polled("NotReady", Nil, EitherTransportFuture(self.tag, p.fut), p.orc, p.ev)
      [] OTHER -> Polled(p.st, p.val, Nil, p.orc, p.ev)

EitherConnUpgrFuture_poll(self, orc, peer) ==
    LET p == Poll(self.v, orc, peer) IN
    CASE p.st = "Ready" -> Polled("Ready", EitherSocket(self.tag, p.val), Nil, p.orc, p.ev)
      [] p.st = "NotReady" ->
            Polled("NotReady", Nil, EitherConnUpgrFuture(self.tag, p.fut), p.orc, p.ev)
      [] OTHER -> Polled(p.st, p.val, Nil, p.orc, p.ev)

EitherStream_poll(self, orc, peer) ==
    LET p == Poll(self.v, orc, peer) IN
    CASE p.st = "Ready" ->
            Polled("Ready", EitherSocket(self.tag, p.val), EitherStream(self.tag, p.fut),
                   p.orc, p.ev)
      [] p.st \in {"NotReady", "Err"} ->
            Polled(p.st, p.val, EitherStream(self.tag, p.fut), p.orc, p.ev)
      [] OTHER -> Polled(p.st, p.val, Nil, p.orc, p.ev)

\* The closure of the first and_then, called with the connection the
\* transport has produced: advertise, then start the negotiation.
StartNegotiation(role, upg, connection) ==
    LET names == Collect(protocol_names(upg)) IN
    Built(Negotiation(role, connection, names),
          << [op |-> "connected", conn |-> connection],
             [op |-> "protocol_names", upgrade |-> upg],
             [op |-> "negotiate", role |-> role, conn |-> connection, names |-> names] >>)

\* A faulty variant of the second closure that upgrades the connection as it
\* was before the negotiation.
StartUpgrade_raw(upg, connection, upgrade_id) ==
    LET b == upgrade(upg, connection.conn, upgrade_id) IN
    Built(b.fut,
          << [op |-> "upgrade", upgrade |-> upg, socket |-> connection.conn,
              id |-> upgrade_id] >>
          \o b.calls)

\* A faulty variant of the second closure that hands the upgrade a
\* negotiation which still holds the connection.
StartUpgrade_shared(upg, connection, upgrade_id) ==
    LET held == Negotiation("dialer", connection, <<>>)
        b == upgrade(upg, held, upgrade_id)
    IN Built(b.fut,
             << [op |-> "upgrade", upgrade |-> upg, socket |-> connection,
                 id |-> upgrade_id] >>
             \o b.calls)

\* The closure of the second and_then: upgrade.upgrade(connection, upgrade_id).
StartUpgrade(upg, connection, upgrade_id) ==
    LET b == upgrade(upg, connection, upgrade_id) IN
    Built(b.fut,
          << [op |-> "upgrade", upgrade |-> upg, socket |-> connection, id |-> upgrade_id] >>
          \o b.calls)

\* The last future of the chain: the upgrade's.
DialFuture_upgrade(f, orc, peer, calls) ==
    LET p == Poll(f, orc, peer) IN
    CASE p.st = "NotReady" ->
            Polled("NotReady", Nil, DialFuture("upgrade", p.fut, Nil), p.orc, calls \o p.ev)
      [] p.st = "Ready" ->
            Polled("Ready", p.val, Nil, p.orc,
                   calls \o p.ev \o <<[op |-> "upgraded", conn |-> p.val]>>)
      [] OTHER -> Polled(p.st, p.val, Nil, p.orc, calls \o p.ev)

\* The negotiation of the chain; its error goes to map_err(|err| panic!(..)).
DialFuture_negotiate(f, upg, orc, peer, calls) ==
    LET p == Poll(f, orc, peer) IN
    CASE p.st = "NotReady" ->
            Polled("NotReady", Nil, DialFuture("negotiate", p.fut, upg), p.orc, calls \o p.ev)
      [] p.st = "Ready" ->
            LET b == StartUpgrade(upg, p.val.conn, p.val.id) IN
            DialFuture_upgrade(b.fut, p.orc, peer, calls \o p.ev \o b.calls)
      [] OTHER -> Polled("Panic", p.val, Nil, p.orc, calls \o p.ev)

\* A faulty variant of the chain's poll that goes on to negotiate when the
\* future before it has failed.
DialFuture_poll_onward(self, orc, peer) ==
    CASE self.stage = "dial" ->
            LET p == Poll(self.f, orc, peer) IN
            CASE p.st = "NotReady" ->
                    Polled("NotReady", Nil, DialFuture("dial", p.fut, self.upgrade), p.orc, p.ev)
              [] p.st = "Ready" ->
                    LET b == StartNegotiation("dialer", self.upgrade, p.val) IN
                    DialFuture_negotiate(b.fut, self.upgrade, p.orc, peer, p.ev \o b.calls)
              [] OTHER ->
                    LET b == StartNegotiation("dialer", self.upgrade, p.val) IN
                    DialFuture_negotiate(b.fut, self.upgrade, p.orc, peer, p.ev \o b.calls)
      [] self.stage = "negotiate" ->
            DialFuture_negotiate(self.f, self.upgrade, orc, peer, <<>>)
      [] self.stage = "upgrade" ->
            DialFuture_upgrade(self.f, orc, peer, <<>>)

DialFuture_poll(self, orc, peer) ==
    CASE self.stage = "dial" ->
            LET p == Poll(self.f, orc, peer) IN
            CASE p.st = "NotReady" ->
                    Polled("NotReady", Nil, DialFuture("dial", p.fut, self.upgrade), p.orc, p.ev)
              [] p.st = "Ready" ->
                    LET b == StartNegotiation("dialer", self.upgrade, p.val) IN
                    DialFuture_negotiate(b.fut, self.upgrade, p.orc, peer, p.ev \o b.calls)
              [] OTHER -> Polled(p.st, p.val, Nil, p.orc, p.ev)
      [] self.stage = "negotiate" ->
            DialFuture_negotiate(self.f, self.upgrade, orc, peer, <<>>)
      [] self.stage = "upgrade" ->
            DialFuture_upgrade(self.f, orc, peer, <<>>)

\* A faulty variant of the second and_then whose stream is gone once an
\* upgrade has failed.
ListenerStream_upgrade_fatal(self, f2, orc, peer, calls) ==
    LET p == Poll(f2, orc, peer) IN
    CASE p.st = "NotReady" ->
            Polled("NotReady", Nil, [self EXCEPT !.f1 = Nil, !.f2 = p.fut], p.orc, calls \o p.ev)
      [] p.st = "Ready" ->
            Polled("Ready", p.val, [self EXCEPT !.f1 = Nil, !.f2 = Nil], p.orc,
                   calls \o p.ev \o <<[op |-> "upgraded", conn |-> p.val]>>)
      [] OTHER -> Polled(p.st, p.val, Nil, p.orc, calls \o p.ev)

\* The second and_then of the stream: it drives the upgrade's future, and
\* hands the stream its item or its error.
ListenerStream_upgrade(self, f2, orc, peer, calls) ==
    LET p == Poll(f2, orc, peer) IN
    CASE p.st = "NotReady" ->
            Polled("NotReady", Nil, [self EXCEPT !.f1 = Nil, !.f2 = p.fut], p.orc, calls \o p.ev)
      [] p.st = "Ready" ->
            Polled("Ready", p.val, [self EXCEPT !.f1 = Nil, !.f2 = Nil], p.orc,
                   calls \o p.ev \o <<[op |-> "upgraded", conn |-> p.val]>>)
      [] p.st = "Err" ->
            Polled("Err", p.val, [self EXCEPT !.f1 = Nil, !.f2 = Nil], p.orc, calls \o p.ev)
      [] OTHER -> Polled("Panic", p.val, Nil, p.orc, calls \o p.ev)

\* The first and_then of the stream: it drives the negotiation; its error
\* goes to map_err(|err| panic!(..)).
ListenerStream_negotiate(self, f1, orc, peer, calls) ==
    LET p == Poll(f1, orc, peer) IN
    CASE p.st = "NotReady" ->
            Polled("NotReady", Nil, [self EXCEPT !.f1 = p.fut], p.orc, calls \o p.ev)
      [] p.st = "Ready" ->
            LET b == StartUpgrade(self.upgrade, p.val.conn, p.val.id) IN
            ListenerStream_upgrade(self, b.fut, p.orc, peer, calls \o p.ev \o b.calls)
      [] OTHER -> Polled("Panic", p.val, Nil, p.orc, calls \o p.ev)

\* A faulty variant of the stream's poll that moves the upgrade-set into the
\* first connection's negotiation instead of a clone of it.
ListenerStream_poll_moved(self, orc, peer) ==
    IF self.f2 # Nil THEN ListenerStream_upgrade(self, self.f2, orc, peer, <<>>)
    ELSE IF self.f1 # Nil THEN ListenerStream_negotiate(self, self.f1, orc, peer, <<>>)
    ELSE LET p == Poll(self.inner, orc, peer) IN
         CASE p.st = "NotReady" ->
                 Polled("NotReady", Nil, [self EXCEPT !.inner = p.fut], p.orc, p.ev)
           [] p.st = "End" -> Polled("End", Nil, Nil, p.orc, p.ev)
           [] p.st = "Ready" ->
                 LET b == StartNegotiation("listener", self.upgrade, p.val) IN
                 ListenerStream_negotiate([self EXCEPT !.inner = p.fut, !.upgrade = Nil],
                                          b.fut, p.orc, peer, p.ev \o b.calls)
           \* an error of the listening stream reaches map_err(|_| panic!())
           [] OTHER -> Polled("Panic", p.val, Nil, p.orc, p.ev)

ListenerStream_poll(self, orc, peer) ==
    IF self.f2 # Nil THEN ListenerStream_upgrade(self, self.f2, orc, peer, <<>>)
    ELSE IF self.f1 # Nil THEN ListenerStream_negotiate(self, self.f1, orc, peer, <<>>)
    ELSE LET p == Poll(self.inner, orc, peer) IN
         CASE p.st = "NotReady" ->
                 Polled("NotReady", Nil, [self EXCEPT !.inner = p.fut], p.orc, p.ev)
           [] p.st = "End" -> Polled("End", Nil, Nil, p.orc, p.ev)
           [] p.st = "Ready" ->
                 LET b == StartNegotiation("listener", self.upgrade, p.val) IN
                 ListenerStream_negotiate([self EXCEPT !.inner = p.fut], b.fut, p.orc, peer,
                                          p.ev \o b.calls)
           \* an error of the listening stream reaches map_err(|_| panic!())
           [] OTHER -> Polled("Panic", p.val, Nil, p.orc, p.ev)

\* Static dispatch of Future::poll / Stream::poll on the type of the value.
Poll(f, orc, peer) ==
    CASE f.k = "LeafDial" -> LeafDial_poll(f, orc)
      [] f.k = "LeafListener" -> LeafListener_poll(f, orc)
      [] f.k = "Negotiation" -> Negotiation_poll(f, orc, peer)
      [] f.k = "UpgradeFuture" -> UpgradeFuture_poll(f, orc)
      [] f.k = "FutureResult" -> FutureResult_poll(f, orc)
      [] f.k = "EitherTransportFuture" -> EitherTransportFuture_poll(f, orc, peer)
      [] f.k = "EitherConnUpgrFuture" -> EitherConnUpgrFuture_poll(f, orc, peer)
      [] f.k = "EitherStream" -> EitherStream_poll(f, orc, peer)
      [] f.k = "DialFuture" -> DialFuture_poll(f, orc, peer)
      [] f.k = "ListenerStream" -> ListenerStream_poll(f, orc, peer)

(***************************** inputs **************************************)
ProtoNames == {"/a/1.0.0", "/b/1.0.0"}

RECURSIVE SeqsUpTo(_, _)
SeqsUpTo(S, n) ==
    IF n = 0 THEN {<<>>}
    ELSE LET shorter == SeqsUpTo(S, n - 1) IN
         shorter \cup {Append(q, e) : q \in shorter, e \in S}

\* The name lists a concrete upgrade may advertise.
NameSeqs == SeqsUpTo(ProtoNames, MaxNames)

\* The names the remote peer proposes or accepts, in its order of preference.
Peers == {q \in SeqsUpTo(ProtoNames \cup {PlainTextName}, 2) :
            \A i, j \in 1..Len(q) : i # j => q[i] # q[j]}

\* How many external outcomes one poll of f can consume at most.
RECURSIVE Stages(_)
Stages(f) ==
    CASE f.k \in {"LeafDial", "LeafListener", "Negotiation", "UpgradeFuture"} -> 1
      [] f.k \in {"EitherTransportFuture", "EitherConnUpgrFuture", "EitherStream"} -> Stages(f.v)
      [] f.k = "DialFuture" ->
            Stages(f.f) + (IF f.stage = "dial" THEN 2 ELSE IF f.stage = "negotiate" THEN 1 ELSE 0)
      [] f.k = "ListenerStream" ->
            IF f.f2 # Nil THEN Stages(f.f2)
            ELSE IF f.f1 # Nil THEN 2
            ELSE Stages(f.inner) + 2
      [] OTHER -> 0

IsStream(f) == f.k \in {"LeafListener", "EitherStream", "ListenerStream"}

IsFuture(f) ==
    f.k \in {"LeafDial", "EitherTransportFuture", "DialFuture", "UpgradeFuture",
             "FutureResult", "EitherConnUpgrFuture"}

RECURSIVE LeafCount(_)
LeafCount(t) ==
    CASE t.k = "OrTransport" -> LeafCount(t.a) + LeafCount(t.b)
      [] t.k = "UpgradedNode" -> LeafCount(t.transports)
      [] OTHER -> 1

RECURSIVE UpgradeCount(_)
UpgradeCount(u) ==
    IF u.k = "OrUpgrade" THEN UpgradeCount(u.a) + UpgradeCount(u.b) ELSE 1

\* The peers that make a difference to a poll: all of them when the poll
\* completes a negotiation (with no name in common it ends in
\* NegotiationError), and one otherwise, as the peer is not consulted.
PeersOf(f, orc) ==
    IF Poll(f, orc, <<>>).val = NegotiationError THEN Peers ELSE {<<>>}

\* The outcomes one poll of f may find arrived.
Oracles(f, outcomes) ==
    SeqsUpTo(outcomes, IF Stages(f) < MaxResolve THEN Stages(f) ELSE MaxResolve)

NotPolled == [st |-> "NotReady", val |-> Nil]

\* The leaf transports answer a call on an address the same way every time.
Consistent(op, addr, acc) ==
    \A a \in answered : (a.op = op /\ a.addr = addr) => (a.ok <=> a.id \in acc)

Answers(calls, acc) ==
    {[op |-> calls[i].op, id |-> calls[i].id, addr |-> calls[i].addr,
      ok |-> calls[i].id \in acc] : i \in {j \in 1..Len(calls) : calls[j].id # 0}}

\* ops and answered keep the last call and the one before it: a caller may
\* call any number of times, and a transport answers a call as it answered
\* the same call just before.
Recent(s) == IF s = <<>> THEN <<>> ELSE <<s[Len(s)]>>

AnswersOf(s) == UNION {Answers(s[i].res.calls, s[i].acc) : i \in 1..Len(s)}

(***************************** builders ************************************)
or_transport(self, other) == OrTransport(self, other)

with_upgrade(self, upg) == UpgradedNode(self, upg)

or_upgrade(self, other_upg) ==
    UpgradedNode(self.transports, OrUpgrade(self.upgrade, other_upg))

(***************************** actions *************************************)
\* self.or_transport(other), with self or other the value built so far.
OrTransportStep ==
    /\ ops = <<>>
    /\ LeafCount(cur) < MaxLeaves
    /\ \E other \in {Leaf(nleaf + 1), DeniedTransport} :
          \/ cur' = or_transport(cur, other)
          \/ cur' = or_transport(other, cur)
    /\ nleaf' = nleaf + 1
    /\ UNCHANGED <<answered, ops, fut, polled, items, ev, nupg, iter, yielded>>

\* The concrete upgrades a caller may bring.
NewUpgrades == {PlainText} \cup {Upgrade(nupg + 1, q) : q \in NameSeqs}

\* self.with_upgrade(upgrade).
WithUpgradeStep ==
    /\ ops = <<>> /\ iter = Nil
    /\ cur.k # "UpgradedNode"
    /\ \E upg \in NewUpgrades : cur' = with_upgrade(cur, upg)
    /\ nupg' = nupg + 1
    /\ UNCHANGED <<nleaf, answered, ops, fut, polled, items, ev, iter, yielded>>

\* self.or_upgrade(other_upg).
OrUpgradeStep ==
    /\ ops = <<>> /\ iter = Nil
    /\ cur.k = "UpgradedNode"
    /\ UpgradeCount(cur.upgrade) < MaxUpgrades
    /\ \E d \in NewUpgrades : cur' = or_upgrade(cur, d)
    /\ nupg' = nupg + 1
    /\ UNCHANGED <<nleaf, answered, ops, fut, polled, items, ev, iter, yielded>>

\* upgrade.protocol_names() on the upgrade-set of the node.
ProtocolNamesStep ==
    /\ cur.k = "UpgradedNode"
    /\ iter = Nil
    /\ iter' = protocol_names(cur.upgrade)
    /\ yielded' = <<>>
    /\ UNCHANGED <<cur, nleaf, answered, ops, fut, polled, items, ev, nupg>>

\* iter.next(), until it has returned None.
NextStep ==
    /\ iter # Nil
    /\ IF yielded = <<>> THEN TRUE ELSE yielded[Len(yielded)].some
    /\ LET n == Iterator_next(iter) IN
       /\ iter' = n.it
       /\ yielded' = Append(yielded, IF n.some THEN [some |-> TRUE, item |-> n.item]
                                     ELSE [some |-> FALSE])
    /\ UNCHANGED <<cur, nleaf, answered, ops, fut, polled, items, ev, nupg>>

\* Two connections of the transport.
Sockets == {RawConn(1, 1, 0), RawConn(1, 1, 1)}

\* upgrade.upgrade(socket, id) with an identifier protocol_names has returned.
UpgradeStep ==
    /\ cur.k = "UpgradedNode"
    /\ ops = <<>>
    /\ yielded # <<>>
    /\ ~yielded[Len(yielded)].some
    /\ \E i \in 1..Len(yielded), socket \in Sockets :
          /\ yielded[i].some
          /\ LET b == upgrade(cur.upgrade, socket, yielded[i].item.id) IN
             /\ ops' = <<[op |-> "upgrade", self |-> cur.upgrade, socket |-> socket,
                          id |-> yielded[i].item.id, res |-> b]>>
             /\ fut' = b.fut
    /\ cur' = Nil
    /\ polled' = NotPolled
    /\ ev' = <<>>
    /\ UNCHANGED <<nleaf, answered, items, nupg, iter, yielded>>

\* cur.dial(addr) or cur.listen_on(addr): the transport is consumed, and
\* handed back with the address when the call fails.
CallStep(op) ==
    /\ cur # Nil
    /\ iter = Nil
    /\ \E addr \in Addrs, acc \in SUBSET (1..nleaf) :
          /\ Consistent(op, addr, acc)
          /\ LET r == Transport_call(op, cur, addr, acc) IN
             \* acc names no transport the call did not ask
             /\ acc \subseteq {r.calls[j].id : j \in 1..Len(r.calls)}
             /\ ops' = Append(Recent(ops), [op |-> op, self |-> cur, addr |-> addr,
                                             acc |-> acc, res |-> r])
             /\ answered' = AnswersOf(Recent(ops)) \cup Answers(r.calls, acc)
             /\ cur' = IF r.ok THEN Nil ELSE r.trans
             /\ fut' = IF r.ok THEN r.v ELSE Nil
    /\ polled' = NotPolled
    /\ items' = <<>>
    /\ ev' = <<>>
    /\ UNCHANGED <<nleaf, nupg, iter, yielded>>

DialStep == CallStep("dial")

ListenStep == CallStep("listen_on")

\* One poll of the future a dial or an upgrade returned.
PollDialStep ==
    /\ IsFuture(fut)
    /\ polled.st = "NotReady"
    /\ \E orc \in Oracles(fut, {"ok", "err"}) : \E peer \in PeersOf(fut, orc) :
          LET p == Poll(fut, orc, peer) IN
          /\ p.orc = <<>>
          /\ fut' = p.fut
          /\ polled' = [st |-> p.st, val |-> p.val]
          /\ ev' = ev \o p.ev
    /\ UNCHANGED <<cur, nleaf, answered, ops, items, nupg, iter, yielded>>

\* One poll of the stream a listen_on returned.
PollListenerStep ==
    /\ IsStream(fut)
    /\ polled.st \in {"NotReady", "Ready", "Err"}
    /\ Len(items) < MaxItems
    /\ \E orc \in Oracles(fut, {"ok", "err", "end"}) : \E peer \in PeersOf(fut, orc) :
          LET p == Poll(fut, orc, peer) IN
          /\ p.orc = <<>>
          /\ fut' = p.fut
          /\ polled' = [st |-> p.st, val |-> p.val]
          /\ items' = IF p.st \in {"Ready", "Err"}
                      THEN Append(items, [st |-> p.st, val |-> p.val]) ELSE items
          /\ ev' = ev \o p.ev
    /\ UNCHANGED <<cur, nleaf, answered, ops, nupg, iter, yielded>>

\* The caller drops the boxed future of a dial before it has resolved: the
\* box owns the whole chain by value, and all of it goes with it.
DropStep ==
    /\ fut.k = "DialFuture"
    /\ polled.st = "NotReady"
    /\ fut' = Nil
    /\ polled' = [st |-> "Dropped", val |-> Nil]
    /\ UNCHANGED <<cur, nleaf, answered, ops, items, ev, nupg, iter, yielded>>

(***************************** specifications ******************************)
Fresh ==
    /\ answered = {}
    /\ ops = <<>>
    /\ fut = Nil
    /\ polled = NotPolled
    /\ items = <<>>
    /\ ev = <<>>
    /\ iter = Nil
    /\ yielded = <<>>

\* The transport combinators: a chain is built, then dialed or listened on.
Init ==
    /\ cur \in {Leaf(1), DeniedTransport}
    /\ nleaf = 1
    /\ nupg = 0
    /\ Fresh

Next ==
    \/ OrTransportStep
    \/ DialStep
    \/ ListenStep
    \/ PollDialStep
    \/ PollListenerStep

Spec == Init /\ [][Next]_vars

\* The upgrade combinators: an upgrade-set is built on a transport, its names
\* are read, and it is applied to a socket.
InitUpgrade ==
    /\ cur = Leaf(1)
    /\ nleaf = 1
    /\ nupg = 0
    /\ Fresh

NextUpgrade ==
    \/ WithUpgradeStep
    \/ OrUpgradeStep
    \/ ProtocolNamesStep
    \/ NextStep
    \/ UpgradeStep
    \/ PollDialStep

SpecUpgrade == InitUpgrade /\ [][NextUpgrade]_vars

\* The concrete upgrades composed three at a time: the n-th is PlainText or
\* an upgrade of its own advertising up to MaxAssocNames names.
AssocUpgrades(n) ==
    {PlainText} \cup {Upgrade(n, q) : q \in SeqsUpTo(ProtoNames, MaxAssocNames)}

\* The two ways OrUpgrade composes three upgrades.
Compositions ==
    UNION {{OrUpgrade(OrUpgrade(a, b), c), OrUpgrade(a, OrUpgrade(b, c))} :
              a \in AssocUpgrades(1), b \in AssocUpgrades(2), c \in AssocUpgrades(3)}

\* Compositions of three upgrades, in either nesting, on one transport: their
\* names are read and they are applied to a socket.
InitAssoc ==
    /\ cur \in {UpgradedNode(Leaf(1), u) : u \in Compositions}
    /\ nleaf = 1
    /\ nupg = 3
    /\ Fresh

NextAssoc ==
    \/ ProtocolNamesStep
    \/ NextStep
    \/ UpgradeStep
    \/ PollDialStep

SpecAssoc == InitAssoc /\ [][NextAssoc]_vars

\* The negotiation driver: nodes as with_upgrade and or_upgrade build them.
UpgradeA == Upgrade(1, <<"/a/1.0.0">>)

UpgradeB == Upgrade(2, <<"/b/1.0.0", "/a/1.0.0">>)

Nodes ==
    { with_upgrade(Leaf(1), PlainText),
      with_upgrade(Leaf(1), UpgradeA),
      with_upgrade(or_transport(DeniedTransport, Leaf(1)), UpgradeB),
      or_upgrade(with_upgrade(Leaf(1), UpgradeA), UpgradeB),
      or_upgrade(with_upgrade(Leaf(1), PlainText), UpgradeA),
      with_upgrade(with_upgrade(Leaf(1), UpgradeA), UpgradeB),
      with_upgrade(with_upgrade(Leaf(1), PlainText), PlainText) }

InitNode ==
    /\ cur \in Nodes
    /\ nleaf = 1
    /\ nupg = 2
    /\ Fresh

NextNode ==
    \/ DialStep
    \/ ListenStep
    \/ PollDialStep
    \/ PollListenerStep
    \/ DropStep

SpecNode == InitNode /\ [][NextNode]_vars

(***************************** properties **********************************)
\* The dial calls made so far on an OrTransport.
OrCalls(op) == {i \in 1..Len(ops) : ops[i].op = op /\ ops[i].self.k = "OrTransport"}

\* What one poll of future f resolves to under each outcome, set beside what
\* one poll of the future g it wraps resolves to: the item wrapped in tag,
\* the error and the pending state as they are.
ResolvesAs(f, g, tag) ==
    \A orc \in {<<>>, <<"ok">>, <<"err">>} :
        LET p == Poll(f, orc, <<>>)
            q == Poll(g, orc, <<>>)
        IN /\ p.st = q.st
           /\ p.st = "Ready" => p.val = EitherSocket(tag, q.val)
           /\ p.st = "Err" => p.val = q.val

\* C1: when A.dial(x) succeeds, OrTransport(A, B).dial(x) succeeds with A's
\* future wrapped as First, which resolves to A's connection wrapped as First
\* or to A's own I/O error, and the calls made are those of A.dial alone.
C1_FirstWins ==
    \A i \in OrCalls("dial") :
        LET o == ops[i]
            ra == Transport_call("dial", o.self.a, o.addr, o.acc)
        IN ra.ok =>
            /\ o.res.ok
            /\ o.res.v = EitherTransportFuture("First", ra.v)
            /\ o.res.calls = ra.calls
            /\ ResolvesAs(o.res.v, ra.v, "First")
            /\ (i = Len(ops) /\ polled.st = "Ready") =>
                    /\ polled.val.k = "EitherSocket"
                    /\ polled.val.tag = "First"
                    /\ polled.val.v = Poll(ra.v, <<"ok">>, <<>>).val

C1_Witness ==
    /\ Len(ops) = 1
    /\ ops[1].op = "dial"
    /\ ops[1].self.k = "OrTransport"
    /\ ops[1].self.b.k = "Leaf"
    /\ ops[1].res.ok
    /\ ops[1].res.v.tag = "First"
    /\ polled.st = "Ready"

\* C2: when A.dial(x) hands the address back and B.dial succeeds on the
\* address handed back, OrTransport(A, B).dial(x) succeeds with B's future
\* wrapped as Second, which resolves to B's connection wrapped as Second.
C2_SecondOnFallback ==
    \A i \in OrCalls("dial") :
        LET o == ops[i]
            ra == Transport_call("dial", o.self.a, o.addr, o.acc)
            rb == Transport_call("dial", o.self.b, ra.addr, o.acc)
        IN (~ra.ok /\ rb.ok) =>
            /\ o.res.ok
            /\ o.res.v = EitherTransportFuture("Second", rb.v)
            /\ ResolvesAs(o.res.v, rb.v, "Second")
            /\ (i = Len(ops) /\ polled.st = "Ready") =>
                    /\ polled.val.k = "EitherSocket"
                    /\ polled.val.tag = "Second"
                    /\ polled.val.v = Poll(rb.v, <<"ok">>, <<>>).val

C2_Witness ==
    /\ Len(ops) = 1
    /\ ops[1].op = "dial"
    /\ ops[1].self.k = "OrTransport"
    /\ ops[1].self.a.k = "Leaf"
    /\ ops[1].res.ok
    /\ ops[1].res.v.tag = "Second"
    /\ polled.st = "Ready"

\* C3: when A.dial(x) and B.dial(x) both fail, OrTransport(A, B).dial(x) fails
\* with x and with OrTransport(A', B') of the two transports handed back, in
\* that order; dialing x on that transport gives what dialing x on the
\* original gave, as a pure result and in the next dial actually made.
C3_BothFail ==
    \A i \in OrCalls("dial") :
        LET o == ops[i]
            ra == Transport_call("dial", o.self.a, o.addr, o.acc)
            rb == Transport_call("dial", o.self.b, o.addr, o.acc)
        IN (~ra.ok /\ ~rb.ok) =>
            /\ ~o.res.ok
            /\ o.res.addr = o.addr
            /\ o.res.trans = OrTransport(ra.trans, rb.trans)
            /\ Transport_call("dial", o.res.trans, o.addr, o.acc) = o.res
            /\ (i < Len(ops) /\ ops[i + 1].op = "dial" /\ ops[i + 1].addr = o.addr) =>
                    /\ ops[i + 1].self = o.res.trans
                    /\ ops[i + 1].res = o.res

C3_Witness ==
    /\ Len(ops) = 2
    /\ ops[1].op = "dial" /\ ops[2].op = "dial"
    /\ ops[1].self.k = "OrTransport"
    /\ ops[1].self.a.k = "Leaf" /\ ops[1].self.b.k = "Leaf"
    /\ ~ops[1].res.ok
    /\ ops[2].addr = ops[1].addr

\* C4: OrTransport(A, B).listen_on(x) gives A's listener wrapped as First
\* with no call to B when A accepts; else B's listener wrapped as Second when
\* B accepts the address A handed back; else it fails with x and with
\* OrTransport(A', B').  Every connection the stream yields carries the tag
\* of the stream.
C4_ListenFallback ==
    \A i \in OrCalls("listen_on") :
        LET o == ops[i]
            ra == Transport_call("listen_on", o.self.a, o.addr, o.acc)
            rb == Transport_call("listen_on", o.self.b, ra.addr, o.acc)
        IN /\ ra.ok => /\ o.res = Ok(EitherStream("First", ra.v), ra.calls)
           /\ (~ra.ok /\ rb.ok) =>
                    o.res = Ok(EitherStream("Second", rb.v), ra.calls \o rb.calls)
           /\ (~ra.ok /\ ~rb.ok) =>
                    o.res = Err(OrTransport(ra.trans, rb.trans), o.addr, ra.calls \o rb.calls)
           /\ (i = Len(ops) /\ o.res.ok) =>
                    \A j \in 1..Len(items) :
                        items[j].st = "Ready" =>
                            /\ items[j].val.k = "EitherSocket"
                            /\ items[j].val.tag = o.res.v.tag

C4_Witness ==
    /\ Len(ops) = 1
    /\ ops[1].op = "listen_on"
    /\ ops[1].self.k = "OrTransport"
    /\ ops[1].self.a.k = "Leaf"
    /\ ops[1].res.ok
    /\ ops[1].res.v.tag = "Second"
    /\ Len(items) = 2
    /\ items[1].st = "Ready" /\ items[2].st = "Ready"

\* The leaf transports of a chain, left to right (0 for DeniedTransport).
RECURSIVE LeavesOf(_)
LeavesOf(t) ==
    CASE t.k = "OrTransport" -> LeavesOf(t.a) \o LeavesOf(t.b)
      [] t.k = "UpgradedNode" -> LeavesOf(t.transports)
      [] t.k = "Leaf" -> <<t.id>>
      [] OTHER -> <<0>>

\* C5: one dial or listen_on of a chain calls its leaf transports left to
\* right, each at most once and with the address of the call: the calls are
\* a prefix of the chain, which ends at the first leaf that accepts and is
\* the whole chain when none does.
C5_LeftToRight ==
    \A i \in 1..Len(ops) :
        LET o == ops[i]
            chain == LeavesOf(o.self)
            calls == o.res.calls
        IN /\ Len(calls) <= Len(chain)
           /\ \A j \in 1..Len(calls) :
                /\ calls[j] = Call(o.op, chain[j], o.addr)
                /\ j < Len(calls) => calls[j].id \notin o.acc
           /\ o.res.ok <=> (calls # <<>> /\ calls[Len(calls)].id \in o.acc)
           /\ ~o.res.ok => Len(calls) = Len(chain)

C5_Witness ==
    /\ ops # <<>>
    /\ Len(LeavesOf(ops[1].self)) = 3
    /\ ops[1].self.a.k = "OrTransport"
    /\ ops[1].res.ok
    /\ Len(ops[1].res.calls) = 3

\* The pairs of s with every identifier wrapped in tag.
Tagged(s, tag) ==
    [i \in 1..Len(s) |-> NameId(s[i].name, EitherUpgradeIdentifier(tag, s[i].id))]

\* The pairs the next() calls have returned so far.
YieldedPairs ==
    [i \in 1..Len(SelectSeq(yielded, LAMBDA y : y.some)) |-> yielded[i].item]

\* The upgrade-set whose names are being read.
ReadUpgrade == IF cur # Nil THEN cur.upgrade ELSE ops[1].self

\* C6: the next() calls on OrUpgrade(U1, U2).protocol_names() return the
\* pairs of U1.protocol_names() tagged First and then those of
\* U2.protocol_names() tagged Second, each in its own order: at every moment a
\* prefix of that sequence, and the whole of it once next() has returned None.
C6_NamesInOrder ==
    (iter # Nil /\ ReadUpgrade.k = "OrUpgrade") =>
        LET want == Tagged(Collect(protocol_names(ReadUpgrade.a)), "First")
                    \o Tagged(Collect(protocol_names(ReadUpgrade.b)), "Second")
            got == YieldedPairs
        IN /\ Len(got) <= Len(want)
           /\ \A i \in 1..Len(got) : got[i] = want[i]
           /\ (yielded # <<>> /\ ~yielded[Len(yielded)].some) => got = want

C6_Witness ==
    /\ iter # Nil
    /\ cur # Nil
    /\ cur.upgrade.k = "OrUpgrade"
    /\ cur.upgrade.a.k = "Upgrade" /\ Len(cur.upgrade.a.names) = 2
    /\ cur.upgrade.a.names[1] # cur.upgrade.a.names[2]
    /\ cur.upgrade.b.k = "Upgrade" /\ cur.upgrade.b.names = cur.upgrade.a.names
    /\ Len(yielded) = 5

\* The concrete upgrades of an upgrade-set.
RECURSIVE UpgradeIds(_)
UpgradeIds(u) ==
    CASE u.k = "OrUpgrade" -> UpgradeIds(u.a) \cup UpgradeIds(u.b)
      [] u.k = "Upgrade" -> {u.id}
      [] OTHER -> {}

\* C7: OrUpgrade(U1, U2).upgrade(socket, id) with id tagged Second returns
\* what U2.upgrade(socket, untagged id) returns, wrapped as Second, and calls
\* no concrete upgrade of U1; with id tagged First, the same of U1.  The item
\* of the future carries the tag of the identifier.
C7_UpgradeDispatch ==
    \A i \in 1..Len(ops) :
        (ops[i].op = "upgrade" /\ ops[i].self.k = "OrUpgrade") =>
            LET o == ops[i]
                side == IF o.id.tag = "First" THEN o.self.a ELSE o.self.b
                other == IF o.id.tag = "First" THEN o.self.b ELSE o.self.a
                b == upgrade(side, o.socket, o.id.v)
            IN /\ o.id.tag \in {"First", "Second"}
               /\ o.res = Built(EitherConnUpgrFuture(o.id.tag, b.fut), b.calls)
               /\ \A j \in 1..Len(o.res.calls) :
                    /\ o.res.calls[j].u \in UpgradeIds(side)
                    /\ o.res.calls[j].u \notin UpgradeIds(other)
                    /\ o.res.calls[j].socket = o.socket
               /\ polled.st = "Ready" =>
                    /\ polled.val.k = "EitherSocket"
                    /\ polled.val.tag = o.id.tag
                    /\ polled.val.v = Poll(b.fut, <<"ok">>, <<>>).val

C7_Witness ==
    /\ Len(ops) = 1
    /\ ops[1].op = "upgrade"
    /\ ops[1].self.k = "OrUpgrade"
    /\ ops[1].self.a.k = "Upgrade" /\ ops[1].self.a.names # <<>>
    /\ ops[1].id.tag = "Second"
    /\ ops[1].res.calls # <<>>
    /\ polled.st = "Ready"

\* The calls made so far on an UpgradedNode that its transport rejected.
Rejected ==
    {i \in 1..Len(ops) :
        /\ ops[i].op \in {"dial", "listen_on"}
        /\ ops[i].self.k = "UpgradedNode"
        /\ ~Transport_call(ops[i].op, ops[i].self.transports, ops[i].addr, ops[i].acc).ok}

\* C8: when the held transport rejects the address, UpgradedNode::dial and
\* UpgradedNode::listen_on return the address the transport handed back and
\* an UpgradedNode of the returned transport and the same upgrade-set; the
\* call has asked transports only, no future or stream exists, and no
\* protocol_names, negotiation or upgrade has been invoked.
C8_RejectKeepsUpgrade ==
    \A i \in Rejected :
        LET o == ops[i]
            rt == Transport_call(o.op, o.self.transports, o.addr, o.acc)
        IN /\ ~o.res.ok
           /\ o.res.addr = rt.addr
           /\ o.res.trans.k = "UpgradedNode"
           /\ o.res.trans.transports = rt.trans
           /\ o.res.trans.upgrade = o.self.upgrade
           /\ o.res.calls = rt.calls
           /\ \A j \in 1..Len(o.res.calls) : o.res.calls[j].op = o.op
           /\ i = Len(ops) => (fut = Nil /\ ev = <<>> /\ polled = NotPolled)

C8_Witness ==
    /\ Len(ops) = 2
    /\ Rejected = {1, 2}
    /\ ops[1].op = "dial" /\ ops[2].op = "listen_on"
    /\ ops[1].self.upgrade.k = "OrUpgrade"
    /\ ops[2].self = ops[1].self

\* The role the last call's negotiations take.
LastRole == IF ops[Len(ops)].op = "dial" THEN "dialer" ELSE "listener"

\* C9: in the calls one dial, or one listener, has made so far: a negotiation
\* starts right after the names were read, on the connection the transport has
\* just resolved to, in the dialer role for a dial and the listener role for a
\* listener, with the names of the node's upgrade-set; an upgrade is invoked
\* right after a negotiation has resolved, on the upgrade-set whose names were
\* negotiated, with the connection and the identifier that negotiation
\* returned; a dial's result is what its last upgrade resolved to.
C9_PhasesInOrder ==
    /\ \A j \in 1..Len(ev) :
         /\ ev[j].op = "protocol_names" => (j > 1 /\ ev[j-1].op = "connected")
         /\ ev[j].op = "negotiate" =>
              /\ j > 2
              /\ ev[j-1].op = "protocol_names"
              /\ ev[j-2].op = "connected"
              /\ ev[j].conn = ev[j-2].conn
              /\ ev[j].role = LastRole
              /\ ev[j].names = Collect(protocol_names(ev[j-1].upgrade))
         /\ ev[j].op = "negotiated" =>
              /\ j > 1
              /\ ev[j-1].op = "negotiate"
              /\ ev[j].conn = Negotiated(ev[j-1].conn, ev[j].conn.name)
              /\ \E n \in 1..Len(ev[j-1].names) :
                    ev[j-1].names[n] = NameId(ev[j].conn.name, ev[j].id)
         /\ ev[j].op = "upgrade" =>
              /\ j > 3
              /\ ev[j-1].op = "negotiated"
              /\ ev[j].socket = ev[j-1].conn
              /\ ev[j].id = ev[j-1].id
              /\ ev[j].upgrade = ev[j-3].upgrade
         /\ ev[j].op = "upgraded" =>
              \E n \in 1..(j-1) :
                 /\ ev[n].op = "upgrade"
                 /\ \A m \in (n+1)..(j-1) : ev[m].op = "leaf_upgrade"
         /\ (ev[j].op = "connected" /\ j > 1 /\ LastRole = "dialer") =>
              (ev[j-1].op = "upgraded" /\ ev[j].conn = ev[j-1].conn)
    /\ (ops # <<>> /\ LastRole = "dialer" /\ polled.st = "Ready") =>
         (ev # <<>> /\ ev[Len(ev)].op = "upgraded" /\ ev[Len(ev)].conn = polled.val)
    /\ \A n \in 1..Len(items) : items[n].st = "Ready" =>
         \E j \in 1..Len(ev) : ev[j].op = "upgraded" /\ ev[j].conn = items[n].val

C9_Witness ==
    /\ ops # <<>>
    /\ ops[Len(ops)].op = "listen_on"
    /\ ops[Len(ops)].self.upgrade.k = "OrUpgrade"
    /\ Len(items) = 2
    /\ items[1].st = "Ready" /\ items[2].st = "Ready"
    /\ items[2].val.tag = "Second"

\* The last call is a dial whose negotiation has started and has not resolved
\* successfully, and whose future is no longer pending.
DialNegotiationFailed ==
    /\ ops # <<>>
    /\ ops[Len(ops)].op = "dial"
    /\ ev # <<>>
    /\ ev[Len(ev)].op = "negotiate"
    /\ polled.st \notin {"NotReady", "Dropped"}

\* C10: when the negotiation of a dial fails, the dial's future resolves to an
\* error handed to the caller: the process is not aborted.
C10_NegotiationFailureIsError ==
    DialNegotiationFailed => polled.st = "Err"

\* The last call is a listen_on, and the negotiation of the connection its
\* listener accepted last has started, has not resolved successfully, and is
\* no longer pending.
ListenNegotiationFailed ==
    /\ ops # <<>>
    /\ ops[Len(ops)].op = "listen_on"
    /\ ev # <<>>
    /\ ev[Len(ev)].op = "negotiate"
    /\ polled # NotPolled
    /\ polled.st # "NotReady"

\* C11: when the negotiation of one accepted connection fails, the listener
\* hands the caller an error for that connection and stays in place to accept
\* the next: the process is not aborted.
C11_ListenerSurvivesNegotiation ==
    ListenNegotiationFailed =>
        (polled.st = "Err" /\ fut # Nil /\ fut.k = "ListenerStream")

\* How many connections the transport's listener inside stream f has accepted.
RECURSIVE Accepted(_)
Accepted(f) ==
    CASE f.k = "LeafListener" -> f.n
      [] f.k = "EitherStream" -> Accepted(f.v)
      [] f.k = "ListenerStream" -> Accepted(f.inner)
      [] OTHER -> 0

\* The listener holds a connection whose negotiation or upgrade is pending.
ListenerBusy ==
    /\ fut.k = "ListenerStream"
    /\ (fut.f1 # Nil \/ fut.f2 # Nil)

\* C12: a connection whose negotiation or upgrade is pending does not keep
\* the listener from accepting the next: a poll that finds the pending future
\* not ready and a connection arrived at the transport accepts that
\* connection.
C12_AcceptsWhilePending ==
    ListenerBusy =>
        LET p == Poll(fut, <<"wait", "ok">>, <<>>) IN
        /\ p.st = "NotReady"
        /\ p.orc = <<>>
        /\ Accepted(p.fut) = Accepted(fut) + 1

\* The node the last call was made on.
LastNode == ops[Len(ops)].self

\* The upgrade invoked at ev[j] is the one of the node called, not that of a
\* node it is stacked on.
OuterUpgradeAt(j) ==
    /\ ev[j].op = "upgrade"
    /\ ev[j].upgrade = LastNode.upgrade
    /\ LastNode.transports.k = "UpgradedNode" =>
         (j > 5 /\ ev[j-5].op = "upgraded" /\ ev[j-4].conn = ev[j-5].conn)

\* Where in ev the last upgrade was invoked.
UpgradeAt == CHOOSE j \in 1..Len(ev) :
                ev[j].op = "upgrade" /\ \A m \in (j+1)..Len(ev) : ev[m].op = "leaf_upgrade"

\* The last poll drove the future of the upgrade invoked last, and that
\* future failed.
UpgradeFailed ==
    /\ ops # <<>>
    /\ LastNode.k = "UpgradedNode"
    /\ ev # <<>>
    /\ ev[Len(ev)].op = "leaf_upgrade"
    /\ polled.st # "NotReady"
    /\ polled.val.k = "IoError"
    /\ polled.val.what = "upgrade"

\* A run of n successes.
AllOk(n) == [i \in 1..n |-> "ok"]

TransportFailed ==
    /\ ops # <<>>
    /\ LastNode.k = "UpgradedNode"
    /\ polled.st # "NotReady"
    /\ polled.val.k = "IoError"
    /\ polled.val.what \in {"connect", "accept"}

\* C14: an I/O error of the transport's connect is the error the dial
\* resolves to, with no negotiation started; an I/O error of the transport's
\* accept is an error item of the listener, which stays in place: the process
\* is not aborted.
C14_TransportErrorReported ==
    TransportFailed =>
        /\ polled.st = "Err"
        /\ IF ops[Len(ops)].op = "dial"
           THEN fut = Nil /\ ev = <<>>
           ELSE /\ fut.k = "ListenerStream"
                /\ fut.f1 = Nil /\ fut.f2 = Nil
                /\ items # <<>> /\ items[Len(items)] = polled

\* C15: PlainText advertises the one name /plaintext/1.0.0, the same on every
\* call; a node of PlainText, dialing or listening, negotiates with that list
\* and so selects that name; PlainText's upgrade resolves in the poll that
\* invokes it, to the connection it was given, so that the dial's result, and
\* the listener's item, is the connection the negotiation returned.
C15_PlainTextIdentity ==
    /\ Collect(protocol_names(PlainText)) = <<NameId(PlainTextName, Unit)>>
    /\ \A j \in 1..Len(ev) :
         /\ (ev[j].op = "protocol_names" /\ ev[j].upgrade = PlainText) =>
               ev[j+1].names = <<NameId(PlainTextName, Unit)>>
         /\ (ev[j].op = "upgrade" /\ ev[j].upgrade = PlainText) =>
               /\ ev[j-1].conn.name = PlainTextName
               /\ ev[j].id = Unit
               /\ ev[j].socket = Negotiated(ev[j-2].conn, PlainTextName)
               /\ j < Len(ev)
               /\ ev[j+1] = [op |-> "upgraded", conn |-> ev[j].socket]
               /\ j + 1 = Len(ev) =>
                    /\ polled.st = "Ready" => polled.val = ev[j].socket
                    /\ ops[Len(ops)].op = "dial" => polled.st = "Ready"
                    /\ ops[Len(ops)].op = "listen_on" =>
                         \E n \in 1..Len(items) :
                            items[n] = [st |-> "Ready", val |-> ev[j].socket]

C15_Witness ==
    /\ ops # <<>>
    /\ ops[Len(ops)].op = "dial"
    /\ LastNode = with_upgrade(Leaf(1), PlainText)
    /\ polled.st = "Ready"
    /\ polled.val = Negotiated(RawConn(1, ops[Len(ops)].addr, 0), PlainTextName)

\* The names an upgrade-set advertises.
NamesOf(u) == {p.name : p \in Range(Collect(protocol_names(u)))}

\* The calls into concrete upgrades that the upgrade invoked at ev[j] made.
LeafUpgradesAfter(j) ==
    {m \in (j+1)..Len(ev) : \A n \in (j+1)..m : ev[n].op = "leaf_upgrade"}

\* C16: on a listener of a node with OrUpgrade(U1, U2), a peer that proposes
\* only names that U2 advertises and U1 does not makes the negotiation select
\* a pair of U2 tagged Second; after such a selection the upgrade is invoked
\* with that identifier on the negotiated connection, calls concrete upgrades
\* of U2 only, and the connection produced is what U2's upgrade resolves to,
\* wrapped as Second.
C16_SecondSelected ==
    (ops # <<>> /\ ops[Len(ops)].op = "listen_on" /\ LastNode.upgrade.k = "OrUpgrade") =>
        LET U == LastNode.upgrade
            only2 == NamesOf(U.b) \ NamesOf(U.a)
        IN /\ \A peer \in Peers :
                (peer # <<>> /\ Range(peer) \subseteq only2) =>
                    LET sel == listener_select_proto(Collect(protocol_names(U)), peer) IN
                    /\ sel # Nil
                    /\ sel.name \in Range(peer)
                    /\ sel.id.tag = "Second"
                    /\ NameId(sel.name, sel.id.v) \in Range(Collect(protocol_names(U.b)))
           /\ \A j \in 1..Len(ev) :
                (ev[j].op = "negotiated" /\ ev[j].conn.name \in only2) =>
                    /\ ev[j].id.tag = "Second"
                    /\ ev[j+1].op = "upgrade"
                    /\ ev[j+1].upgrade = U
                    /\ ev[j+1].id = ev[j].id
                    /\ ev[j+1].socket = ev[j].conn
                    /\ \A m \in LeafUpgradesAfter(j+1) :
                          /\ ev[m].u \in UpgradeIds(U.b)
                          /\ ev[m].u \notin UpgradeIds(U.a)
                          /\ ev[m].socket = ev[j].conn
                    /\ \A m \in (j+2)..Len(ev) :
                          (ev[m].op = "upgraded" /\ m - 1 \in LeafUpgradesAfter(j+1) \cup {j+1}) =>
                             ev[m].conn =
                                EitherSocket("Second",
                                   Poll(upgrade(U.b, ev[j].conn, ev[j].id.v).fut,
                                        AllOk(1), <<>>).val)

C16_Witness ==
    /\ ops # <<>>
    /\ ops[Len(ops)].op = "listen_on"
    /\ LastNode = or_upgrade(with_upgrade(Leaf(1), UpgradeA), UpgradeB)
    /\ items # <<>>
    /\ items[Len(items)].st = "Ready"
    /\ items[Len(items)].val.tag = "Second"
    /\ \E j \in 1..Len(ev) : ev[j].op = "negotiated" /\ ev[j].conn.name = "/b/1.0.0"

\* C17: DeniedTransport fails every dial and every listen_on and hands back
\* itself and the address it was given; OrTransport(T, DeniedTransport)
\* succeeds exactly when T does, with T's future or stream wrapped as First,
\* and when T rejects the address it fails with the address it was given and
\* OrTransport(T', DeniedTransport).
C17_DeniedNeverAccepts ==
    \A i \in 1..Len(ops) :
        LET o == ops[i] IN
        /\ o.self = DeniedTransport =>
              /\ ~o.res.ok
              /\ o.res.addr = o.addr
              /\ o.res.trans = DeniedTransport
        /\ (o.self.k = "OrTransport" /\ o.self.b = DeniedTransport) =>
              LET rt == Transport_call(o.op, o.self.a, o.addr, o.acc) IN
              /\ o.res.ok <=> rt.ok
              /\ rt.ok => (o.res.v.tag = "First" /\ o.res.v.v = rt.v)
              /\ ~rt.ok =>
                    /\ o.res.addr = o.addr
                    /\ o.res.trans = OrTransport(rt.trans, DeniedTransport)

C17_Witness ==
    /\ Len(ops) = 2
    /\ ops[1].self = OrTransport(Leaf(1), DeniedTransport)
    /\ ops[1].op = "dial" /\ ops[2].op = "dial"
    /\ ~ops[1].res.ok
    /\ ops[2].self = ops[1].self
    /\ ops[2].addr # ops[1].addr
    /\ ops[2].res.ok

\* The layers, outermost first, that hold a connection or a connection in
\* the making inside the value f: the transport's future, a negotiation, an
\* upgrade's future.
RECURSIVE Owners(_)
Owners(f) ==
    CASE f.k = "LeafDial" -> <<"transport">>
      [] f.k = "Negotiation" -> <<"negotiation">> \o Owners(f.conn)
      [] f.k = "UpgradeFuture" -> <<"upgrade">> \o Owners(f.socket)
      [] f.k = "FutureResult" -> <<"upgrade">> \o Owners(f.v)
      [] f.k \in {"EitherTransportFuture", "EitherConnUpgrFuture", "EitherSocket"} -> Owners(f.v)
      [] f.k = "DialFuture" -> Owners(f.f)
      [] f.k = "Negotiated" -> Owners(f.conn)
      [] f.k = "Upgraded" -> Owners(f.socket)
      [] OTHER -> <<>>

\* The stage of the innermost chain of a dial's future that is still running.
RECURSIVE Phase(_)
Phase(f) ==
    CASE f.k = "DialFuture" ->
            IF f.stage = "dial" /\ Phase(f.f) # "none" THEN Phase(f.f)
            ELSE IF f.stage = "dial" THEN "transport"
            ELSE IF f.stage = "negotiate" THEN "negotiation" ELSE "upgrade"
      [] f.k \in {"EitherTransportFuture", "EitherConnUpgrFuture"} -> Phase(f.v)
      [] OTHER -> "none"

LayerUpgradeAt(j) ==
    IF LastNode.transports.k # "UpgradedNode" THEN LastNode.upgrade
    ELSE IF j > 1 /\ ev[j-1].op = "upgraded" /\ ev[j-1].conn = ev[j].conn
         THEN LastNode.upgrade
         ELSE LastNode.transports.upgrade

\* C19: a listener keeps its upgrade-set for as long as it lives; every
\* connection it accepts is negotiated against the pairs that upgrade-set
\* advertises, the same for the first connection and for the later ones; and
\* upgrade is invoked once for each negotiation that has succeeded, on that
\* same upgrade-set.
C19_UpgradeSetPerConnection ==
    (ops # <<>> /\ ops[Len(ops)].op = "listen_on" /\ LastNode.k = "UpgradedNode") =>
        /\ fut.k = "ListenerStream" => fut.upgrade = LastNode.upgrade
        /\ \A j \in 1..Len(ev) :
              /\ ev[j].op = "connected" =>
                    /\ ev[j+1] = [op |-> "protocol_names", upgrade |-> LayerUpgradeAt(j)]
                    /\ ev[j+2].names = Collect(protocol_names(LayerUpgradeAt(j)))
              /\ ev[j].op = "negotiated" =>
                    /\ j < Len(ev)
                    /\ ev[j+1].op = "upgrade"
                    /\ ev[j+1].upgrade = ev[j-2].upgrade
                    /\ j + 1 < Len(ev) => ev[j+2].op # "upgrade"
        /\ Cardinality({j \in 1..Len(ev) : ev[j].op = "upgrade"})
              = Cardinality({j \in 1..Len(ev) : ev[j].op = "negotiated"})

C19_Witness ==
    /\ ops # <<>>
    /\ ops[Len(ops)].op = "listen_on"
    /\ LastNode = with_upgrade(or_transport(DeniedTransport, Leaf(1)), UpgradeB)
    /\ Len(items) = 2
    /\ items[1].st = "Ready" /\ items[2].st = "Ready"
    /\ Cardinality({j \in 1..Len(ev) : ev[j].op = "upgrade"}) = 2

\* The steps of a dial, without the calls into concrete upgrades.
Steps == SelectSeq(ev, LAMBDA e : e.op # "leaf_upgrade")

\* The steps of one layer, and of two layers one on top of the other.
LayerSteps == <<"connected", "protocol_names", "negotiate", "negotiated", "upgrade", "upgraded">>

StackedSteps == LayerSteps \o LayerSteps

\* C20: a dial of UpgradedNode(UpgradedNode(T, U1), U2) goes through T's
\* connection, U1's negotiation, U1's upgrade, U2's negotiation, U2's upgrade
\* in that order; U2's names are read and negotiated only once U1's upgrade
\* has resolved, on the connection it resolved to; the dial resolves to what
\* U2's upgrade resolved to; and once a step has failed the future is gone
\* with no step after the failed one.
C20_StackedOrder ==
    (/\ ops # <<>>
     /\ ops[Len(ops)].op = "dial"
     /\ LastNode.k = "UpgradedNode"
     /\ LastNode.transports.k = "UpgradedNode") =>
        LET U1 == LastNode.transports.upgrade
            U2 == LastNode.upgrade
            E == Steps
            n == Len(E)
        IN /\ n <= Len(StackedSteps)
           /\ \A k \in 1..n : E[k].op = StackedSteps[k]
           /\ n >= 1 => E[1].conn.k \in {"RawConn", "EitherSocket"}
           /\ n >= 2 => E[2].upgrade = U1
           /\ n >= 3 => (E[3].conn = E[1].conn /\ E[3].names = Collect(protocol_names(U1)))
           /\ n >= 5 => (E[5].upgrade = U1 /\ E[5].socket = E[4].conn)
           /\ n >= 7 => E[7].conn = E[6].conn
           /\ n >= 8 => E[8].upgrade = U2
           /\ n >= 9 => (E[9].conn = E[6].conn /\ E[9].names = Collect(protocol_names(U2)))
           /\ n >= 11 => (E[11].upgrade = U2 /\ E[11].socket = E[10].conn)
           /\ polled.st = "Ready" <=> n = Len(StackedSteps)
           /\ polled.st = "Ready" => polled.val = E[n].conn
           /\ polled.st \in {"Err", "Panic"} =>
                 /\ fut = Nil
                 /\ n \in {0, 3, 5, 9, 11}

C20_Witness ==
    /\ ops # <<>>
    /\ ops[Len(ops)].op = "dial"
    /\ LastNode = with_upgrade(with_upgrade(Leaf(1), UpgradeA), UpgradeB)
    /\ polled.st = "Ready"
    /\ Len(Steps) = Len(StackedSteps)

(***************************** Associativity *******************************)
\* An identifier without its First/Second tags.
RECURSIVE Untag(_)
Untag(id) == IF id.k = "EitherUpgradeIdentifier" THEN Untag(id.v) ELSE id

\* A future without its First/Second wrappers.
RECURSIVE Inner(_)
Inner(f) == IF f.k = "EitherConnUpgrFuture" THEN Inner(f.v) ELSE f

\* The position, among the concrete upgrades of u from left to right, of the
\* one the tags of id select.
RECURSIVE Selected(_, _)
Selected(u, id) ==
    IF u.k # "OrUpgrade" THEN 1
    ELSE IF id.tag = "First" THEN Selected(u.a, id.v)
    ELSE UpgradeCount(u.a) + Selected(u.b, id.v)

\* Where u.upgrade(socket, id) ends: the concrete upgrade selected, the calls
\* made into concrete upgrades and the future under the wrappers.
Route(u, socket, id) ==
    LET b == upgrade(u, socket, id) IN
    [to |-> Selected(u, id), calls |-> b.calls, fut |-> Inner(b.fut)]

\* The other nestings of the same upgrades in the same order:
\* OrUpgrade(OrUpgrade(A, B), C) for OrUpgrade(A, OrUpgrade(B, C)) and back.
Reassociations(u) ==
    IF u.k # "OrUpgrade" THEN {}
    ELSE (IF u.a.k = "OrUpgrade"
          THEN {OrUpgrade(u.a.a, OrUpgrade(u.a.b, u.b))} ELSE {})
         \cup (IF u.b.k = "OrUpgrade"
               THEN {OrUpgrade(OrUpgrade(u.a, u.b.a), u.b.b)} ELSE {})

\* C21: OrUpgrade(OrUpgrade(A, B), C) and OrUpgrade(A, OrUpgrade(B, C))
\* advertise the same names in the same order, and at each position the
\* identifier of either routes upgrade to the same concrete upgrade, with the
\* same untagged identifier; the names next() has returned and the upgrade
\* that was invoked agree with the other nesting as well.
C21_Associative ==
    \A r \in Reassociations(ReadUpgrade) :
        LET l == ReadUpgrade
            L == Collect(protocol_names(l))
            R == Collect(protocol_names(r))
        IN /\ Len(L) = Len(R)
           /\ \A i \in 1..Len(L) :
                 /\ L[i].name = R[i].name
                 /\ Untag(L[i].id) = Untag(R[i].id)
                 /\ \A socket \in Sockets :
                       Route(l, socket, L[i].id) = Route(r, socket, R[i].id)
           /\ iter # Nil =>
                 /\ Len(YieldedPairs) <= Len(R)
                 /\ \A i \in 1..Len(YieldedPairs) : YieldedPairs[i].name = R[i].name
           /\ \A j \in 1..Len(ops) :
                 ops[j].op = "upgrade" =>
                    \E i \in 1..Len(R) :
                       /\ L[i].id = ops[j].id
                       /\ Route(r, ops[j].socket, R[i].id)
                             = [to |-> Selected(l, ops[j].id), calls |-> ops[j].res.calls,
                                fut |-> Inner(ops[j].res.fut)]

\* The names of OrUpgrade(A, OrUpgrade(B, C)) were read to the end, A and B
\* advertising names, and the upgrade was invoked with an identifier of C.
C21_Witness ==
    /\ Len(ops) = 1
    /\ ops[1].op = "upgrade"
    /\ ops[1].self.k = "OrUpgrade"
    /\ ops[1].self.a.k = "Upgrade" /\ ops[1].self.a.names # <<>>
    /\ ops[1].self.b.k = "OrUpgrade"
    /\ ops[1].self.b.a.k = "Upgrade" /\ ops[1].self.b.a.names # <<>>
    /\ ops[1].self.b.b.k = "Upgrade"
    /\ ops[1].id = EitherUpgradeIdentifier("Second",
                       EitherUpgradeIdentifier("Second", UpgradeId(3, 1)))
    /\ ops[1].res.calls = <<UpgradeCall(3, ops[1].socket, UpgradeId(3, 1))>>
    /\ polled.st = "Ready"

====
